---- MODULE Spec2Model ----
(***************************************************************************)
(* A model of datacompy.core.Compare (src/datacompy/core.py): validation   *)
(* of the two dataframes, the duplicate-rank outer join that partitions    *)
(* the rows, the per-column tolerance comparison and the predicates that   *)
(* are derived from them.                                                  *)
(*                                                                         *)
(* A dataframe is a record [kind, columns, index, data]: the ordered       *)
(* column names, the index labels and the rows (data[i][j] is the value    *)
(* of row i in column columns[j]).  The two dataframes handed to Compare   *)
(* live in a two-cell heap, so that df1 and df2 may be the same object.    *)
(***************************************************************************)
EXTENDS Integers, Sequences, FiniteSets, TLC

\* ---------------------------------------------------------------- bounds
\* Most rows an input dataframe holds.
MaxRows == 2
\* Largest sample_count handed to sample_mismatch.
MaxSample == 3
\* rel_tol is a rational RelNum / RelDen; numbers of the data are integers.
RelDen == 2

\* ---------------------------------------------------------------- values
\* A cell value carries its type; v is always an integer so that any two
\* cells can be compared.  Strings are coded by their rank in string order.
Num(n) == [t |-> "num", v |-> n]
Str(n) == [t |-> "str", v |-> n]
Bool(b) == [t |-> "bool", v |-> IF b THEN 1 ELSE 0]
NULL == [t |-> "null", v |-> 0]

isnull(x) == x.t = "null"

Abs(n) == IF n < 0 THEN -n ELSE n
Min(a, b) == IF a < b THEN a ELSE b

Range(s) == {s[i] : i \in 1..Len(s)}
SeqsUpTo(S, n) == UNION {[1..k -> S] : k \in 0..n}
Count(s, x) == Cardinality({i \in 1..Len(s) : s[i] = x})
IndexOf(s, x) == CHOOSE i \in 1..Len(s) : s[i] = x
Perms(S) == {p \in [1..Cardinality(S) -> S] : Range(p) = S}

\* str.lower() over the column names the model uses.
lower(col) ==
    CASE col = "ID" -> "id"
      [] col = "A" -> "a"
      [] col = "B" -> "b"
      [] OTHER -> col

LowerAll(cols) == [i \in 1..Len(cols) |-> lower(cols[i])]

\* ------------------------------------------------------------ dataframes
NoFrame(k) == [kind |-> k, columns |-> <<>>, index |-> <<>>, data |-> <<>>]
\* An attribute that was never assigned, and the None of line 96.
Unset == NoFrame("unset")
None == NoFrame("None")
\* An argument that is not a pandas DataFrame.
NotAFrame == NoFrame("other")

RangeIndex(n) == [i \in 1..n |-> Num(i - 1)]

Frame(cols, idx, rows) ==
    [kind |-> "DataFrame", columns |-> cols, index |-> idx, data |-> rows]

len(df) == Len(df.data)
HasColumn(df, c) == c \in Range(df.columns)
\* df[c]: the values of column c, by row position.
Col(df, c) == [i \in 1..len(df) |-> df.data[i][IndexOf(df.columns, c)]]
Cell(df, i, c) == df.data[i][IndexOf(df.columns, c)]

\* df[c] = vals: overwrites the column when it exists, appends it otherwise.
SetColumn(df, c, vals) ==
    IF HasColumn(df, c)
    THEN [df EXCEPT !.data = [i \in 1..len(df) |->
              [df.data[i] EXCEPT ![IndexOf(df.columns, c)] = vals[i]]]]
    ELSE [df EXCEPT !.columns = Append(df.columns, c),
                    !.data = [i \in 1..len(df) |-> Append(df.data[i], vals[i])]]

SelectIdx(s, keep) ==
    LET RECURSIVE go(_)
        go(i) == IF i > Len(s) THEN <<>>
                 ELSE IF i \in keep THEN <<s[i]>> \o go(i + 1) ELSE go(i + 1)
    IN go(1)

\* df.drop(c, axis=1): the caller checks that the column exists.
DropColumn(df, c) ==
    LET keep == {j \in 1..Len(df.columns) : df.columns[j] # c}
    IN [df EXCEPT !.columns = SelectIdx(df.columns, keep),
                  !.data = [i \in 1..len(df) |-> SelectIdx(df.data[i], keep)]]

\* df[mask]: the rows at the positions in keep, in order.
SelectRows(df, keep) ==
    [df EXCEPT !.index = SelectIdx(df.index, keep),
               !.data = SelectIdx(df.data, keep)]

\* df[cols]: the listed columns, in the listed order.
Project(df, cols) ==
    [df EXCEPT !.columns = cols,
               !.data = [i \in 1..len(df) |->
                   [j \in 1..Len(cols) |-> Cell(df, i, cols[j])]]]

\* ----------------------------------------------------------------- state
VARIABLES
    pc,            \* where the constructor stands: "start", "accepted",
                   \* "df1_set", "df2_set", "merged", "done" or "error"
    arg,           \* the arguments of Compare(...): df1 and df2 are heap cells
    heap,          \* the caller's dataframe objects
    heap0,         \* the caller's dataframe objects as they were at the call
    on_index,      \* self.on_index
    join_columns,  \* self.join_columns
    any_dupes,     \* self._any_dupes
    df1_unq_rows,  \* self.df1_unq_rows
    df2_unq_rows,  \* self.df2_unq_rows
    intersect_rows,\* self.intersect_rows
    column_stats,  \* self.column_stats
    err,           \* the exception that ended the constructor, if any
    ret            \* what the last call of a method of the object returned

vars == <<pc, arg, heap, heap0, on_index, join_columns, any_dupes,
          df1_unq_rows, df2_unq_rows, intersect_rows, column_stats, err, ret>>

NoErr == [type |-> "none", stage |-> "none"]
Raise(type, stage) == [type |-> type, stage |-> stage]
NoRet == [call |-> "none", column |-> "", n |-> 0, flag |-> FALSE,
          value |-> FALSE, raised |-> FALSE, rows |-> {}]

\* self.df1 and self.df2: the objects the properties of lines 100-119 return.
df1 == heap[arg.df1]
df2 == heap[arg.df2]

\* --------------------------------------------------------------- __init__
\* Lines 77-89: the join key is the index or the lower-cased join_columns.
Accept ==
    /\ pc = "start"
    /\ IF arg.on_index /\ arg.join_columns.kind # "None"
       THEN /\ pc' = "error"
            /\ err' = Raise("Exception", "init")
            /\ UNCHANGED <<on_index, join_columns>>
       ELSE IF arg.on_index
       THEN /\ pc' = "accepted"
            /\ on_index' = TRUE
            /\ join_columns' = <<>>
            /\ err' = err
       ELSE IF arg.join_columns.kind = "None"
       THEN \* [col.lower() for col in None]
            /\ pc' = "error"
            /\ err' = Raise("TypeError", "init")
            /\ UNCHANGED <<on_index, join_columns>>
       ELSE /\ pc' = "accepted"
            /\ on_index' = FALSE
            /\ join_columns' = LowerAll(arg.join_columns.cols)
            /\ err' = err
    /\ any_dupes' = FALSE
    /\ UNCHANGED <<arg, heap, heap0, df1_unq_rows, df2_unq_rows,
                   intersect_rows, column_stats, ret>>

\* The join key of row i: the values of the key columns.
KeyOf(df, i, keys) == [k \in 1..Len(keys) |-> Cell(df, i, keys[k])]

\* dataframe.index.duplicated().sum() > 0
IndexHasDupes(df) ==
    \E i, j \in 1..len(df) : i < j /\ df.index[i] = df.index[j]

\* len(dataframe.drop_duplicates(subset=keys)) < len(dataframe)
KeysHaveDupes(df, keys) ==
    \E i, j \in 1..len(df) : i < j /\ KeyOf(df, i, keys) = KeyOf(df, j, keys)

UniqueNames(cols) == Cardinality(Range(cols)) = Len(cols)

\* _validate_dataframe without the check of line 138 for unique names.
ValidateError_NoUniqueCheck(obj, keys) ==
    IF obj.kind # "DataFrame" THEN "TypeError"
    ELSE IF ~(Range(keys) \subseteq Range(LowerAll(obj.columns))) THEN "ValueError"
    ELSE "none"

\* _validate_dataframe: the exception it raises on this object, or "none".
\* The column names have been lower-cased when the later checks run.
ValidateError(obj, keys) ==
    IF obj.kind # "DataFrame" THEN "TypeError"
    ELSE IF ~(Range(keys) \subseteq Range(LowerAll(obj.columns))) THEN "ValueError"
    ELSE IF ~UniqueNames(LowerAll(obj.columns)) THEN "ValueError"
    ELSE "none"

\* _validate_dataframe: the object after the call (line 133 renames the
\* columns of the caller's dataframe in place).
ValidateRename(obj) ==
    IF obj.kind # "DataFrame" THEN obj
    ELSE [obj EXCEPT !.columns = LowerAll(obj.columns)]

\* _validate_dataframe, lines 141-146.
ValidateDupes(obj, useIndex, keys) ==
    IF useIndex THEN IndexHasDupes(obj) ELSE KeysHaveDupes(obj, keys)

\* The df1 and df2 setters (lines 90-91, 104-119) with _validate_dataframe.
SetDf(ref, stage, next) ==
    LET e == ValidateError(heap[ref], join_columns)
        renamed == ValidateRename(heap[ref])
    IN /\ heap' = [heap EXCEPT ![ref] = renamed]
       /\ IF e # "none"
          THEN /\ pc' = "error"
               /\ err' = Raise(e, stage)
               /\ any_dupes' = any_dupes
          ELSE /\ pc' = next
               /\ err' = err
               /\ any_dupes' = (any_dupes \/ ValidateDupes(renamed, on_index, join_columns))
       /\ UNCHANGED <<arg, heap0, on_index, join_columns, df1_unq_rows,
                      df2_unq_rows, intersect_rows, column_stats, ret>>

SetDf1 == pc = "accepted" /\ SetDf(arg.df1, "validate_df1", "df1_set")
SetDf2 == pc = "df1_set" /\ SetDf(arg.df2, "validate_df2", "df2_set")

\* ------------------------------------------------------- _dataframe_merge
\* The order of sort_values: ascending, missing values last.  The values of
\* one column have one type.
ValLess(x, y) ==
    IF isnull(x) THEN FALSE ELSE IF isnull(y) THEN TRUE ELSE x.v < y.v

\* Row i sorts strictly before row j by the columns `by`, compared in order.
RowLess(df, i, j, by) ==
    \E k \in 1..Len(by) :
        /\ \A m \in 1..(k - 1) : Cell(df, i, by[m]) = Cell(df, j, by[m])
        /\ ValLess(Cell(df, i, by[k]), Cell(df, j, by[k]))

\* Row i stands before row j in df.sort_values(by=by); ties keep their order.
Before(df, i, j, by) ==
    \/ RowLess(df, i, j, by)
    \/ /\ ~RowLess(df, j, i, by)
       /\ i < j

\* The row of df that df.sort_values(by=by) puts at position p.
SortedAt(df, p, by) ==
    CHOOSE i \in 1..len(df) :
        Cardinality({j \in 1..len(df) : Before(df, j, i, by)}) = p - 1

\* cumcount() left out: every row of a key group gets rank 0.
cumcount_unranked(df, i, by, keys) == 0

\* groupby(keys).cumcount() of row i in the frame sorted by `by`: how many
\* rows of its key group stand before it.
cumcount(df, i, by, keys) ==
    Cardinality({j \in 1..len(df) :
        /\ KeyOf(df, j, keys) = KeyOf(df, i, keys)
        /\ Before(df, j, i, by)})

\* Lines 214-217, df[order_column] = df.sort_values(by=list(df.columns))
\*     .groupby(keys).cumcount().
\* The right-hand side is a Series in sorted row order, labelled by the
\* index.  The assignment takes its values by position when its labels are
\* the frame's labels in the same order; otherwise it aligns them by label,
\* which raises ValueError when the labels are not unique.
OrderSeries(df, keys) ==
    LET by == df.columns
        n == len(df)
        sortedLabels == [p \in 1..n |-> df.index[SortedAt(df, p, by)]]
    IN IF sortedLabels = df.index
       THEN [ok |-> TRUE,
             vals |-> [p \in 1..n |-> Num(cumcount(df, SortedAt(df, p, by), by, keys))]]
       ELSE IF IndexHasDupes(df)
       THEN [ok |-> FALSE, vals |-> <<>>]
       ELSE [ok |-> TRUE,
             vals |-> [i \in 1..n |-> Num(cumcount(df, i, by, keys))]]

\* The values of the _merge indicator column.
LeftOnly == [t |-> "cat", v |-> 1]
RightOnly == [t |-> "cat", v |-> 2]
Both == [t |-> "cat", v |-> 3]

Flatten(ss) ==
    LET RECURSIVE go(_)
        go(i) == IF i > Len(ss) THEN <<>> ELSE ss[i] \o go(i + 1)
    IN go(1)

\* The row pairs <<i, j>> of the full outer join: every left row with each
\* right row of the same key, or with 0 when there is none; then the right
\* rows no left row matches, as <<0, j>>.  (pandas orders the joined rows by
\* key; nothing in Compare reads that order.)
JoinPairs(left, right, keys, useIndex) ==
    LET lkey(i) == IF useIndex THEN <<left.index[i]>> ELSE KeyOf(left, i, keys)
        rkey(j) == IF useIndex THEN <<right.index[j]>> ELSE KeyOf(right, j, keys)
        nl == len(left)
        nr == len(right)
        partners(i) == {j \in 1..nr : rkey(j) = lkey(i)}
        leftPart(i) == IF partners(i) = {} THEN << <<i, 0>> >>
                       ELSE SelectIdx([j \in 1..nr |-> <<i, j>>], partners(i))
        unmatched == {j \in 1..nr : \A i \in 1..nl : lkey(i) # rkey(j)}
    IN Flatten([i \in 1..nl |-> leftPart(i)])
       \o SelectIdx([j \in 1..nr |-> <<0, j>>], unmatched)

\* The frame of the joined rows `pairs`.  Key columns appear once; a name
\* both frames carry outside the key gets the suffix of its side; _merge
\* says which side each row came from.
MergedFrame(left, right, keys, useIndex, pairs) ==
    LET isKey(c) == c \in Range(keys)
        rightCols == SelectIdx(right.columns,
                         {k \in 1..Len(right.columns) : ~isKey(right.columns[k])})
        leftName(c) == IF isKey(c) \/ ~HasColumn(right, c) THEN c ELSE c \o "_df1"
        rightName(c) == IF HasColumn(left, c) THEN c \o "_df2" ELSE c
        leftVal(pr, c) ==
            IF pr[1] # 0 THEN Cell(left, pr[1], c)
            ELSE IF isKey(c) THEN Cell(right, pr[2], c) ELSE NULL
        rightVal(pr, c) == IF pr[2] # 0 THEN Cell(right, pr[2], c) ELSE NULL
        indicator(pr) == IF pr[2] = 0 THEN LeftOnly
                         ELSE IF pr[1] = 0 THEN RightOnly ELSE Both
        label(pr) == IF pr[1] # 0 THEN left.index[pr[1]] ELSE right.index[pr[2]]
    IN Frame(
        [k \in 1..Len(left.columns) |-> leftName(left.columns[k])]
            \o [k \in 1..Len(rightCols) |-> rightName(rightCols[k])]
            \o <<"_merge">>,
        IF useIndex THEN [p \in 1..Len(pairs) |-> label(pairs[p])]
        ELSE RangeIndex(Len(pairs)),
        [p \in 1..Len(pairs) |->
            [k \in 1..Len(left.columns) |-> leftVal(pairs[p], left.columns[k])]
            \o [k \in 1..Len(rightCols) |-> rightVal(pairs[p], rightCols[k])]
            \o <<indicator(pairs[p])>>])

\* df1.merge(df2, how='outer', suffixes=('_df1', '_df2'), indicator=True,
\* on=keys) or, with useIndex, (..., left_index=True, right_index=True).
merge(left, right, keys, useIndex) ==
    MergedFrame(left, right, keys, useIndex, JoinPairs(left, right, keys, useIndex))

\* utils.temp_column_name: a name neither dataframe uses for a column.
TempNames == <<"_temp_0", "_temp_1", "_temp_2">>
temp_column_name(d1, d2) ==
    TempNames[CHOOSE i \in 1..Len(TempNames) :
        /\ TempNames[i] \notin Range(d1.columns) \cup Range(d2.columns)
        /\ \A k \in 1..(i - 1) :
               TempNames[k] \in Range(d1.columns) \cup Range(d2.columns)]

\* utils.get_merged_columns: the merged frame's name of each column of
\* original, with the side's suffix where the merge attached it.
MergedName(merged, c, suffix) == IF HasColumn(merged, c) THEN c ELSE c \o suffix
get_merged_columns(original, merged, suffix) ==
    [ok |-> \A c \in Range(original.columns) :
                HasColumn(merged, MergedName(merged, c, suffix)),
     cols |-> [k \in 1..Len(original.columns) |->
                  MergedName(merged, original.columns[k], suffix)]]

\* The statements of _dataframe_merge that write to the caller's dataframes
\* act on a record [heap, e]: the heap so far and the exception raised so
\* far ("none" while there is none; later statements are then skipped).
\* df[c] = df.index
AssignIndex(st, ref, c) ==
    IF st.e # "none" THEN st
    ELSE [st EXCEPT !.heap[ref] = SetColumn(@, c, @.index)]

\* df[c] = s, where s is the Series OrderSeries computed.
AssignSeries(st, ref, c, s) ==
    IF s.ok THEN [st EXCEPT !.heap[ref] = SetColumn(@, c, s.vals)]
    ELSE [st EXCEPT !.e = "ValueError"]

\* df[c] = df.sort_values(by=list(df.columns)).groupby(keys).cumcount()
AssignOrder(st, ref, c, keys) ==
    IF st.e # "none" THEN st
    ELSE AssignSeries(st, ref, c, OrderSeries(st.heap[ref], keys))

\* df.drop(c, axis=1, inplace=True): KeyError when df has no column c.
Drop(st, ref, c) ==
    IF st.e # "none" THEN st
    ELSE IF ~HasColumn(st.heap[ref], c) THEN [st EXCEPT !.e = "KeyError"]
    ELSE [st EXCEPT !.heap[ref] = DropColumn(@, c)]

\* Lines 234-242 on the joined frame: the index column becomes the index
\* again and both temporary columns go.
CleanJoin(outer, useIndex, index_column, order_column) ==
    IF useIndex
    THEN DropColumn(DropColumn([outer EXCEPT !.index = Col(outer, index_column)],
                               index_column), order_column)
    ELSE DropColumn(outer, order_column)

\* Lines 234-242 on the caller's dataframes.
DetachTemp(st, r1, r2, useIndex, index_column, order_column) ==
    IF useIndex
    THEN Drop(Drop(Drop(Drop(st, r1, index_column), r2, index_column),
                   r1, order_column), r2, order_column)
    ELSE Drop(Drop(st, r1, order_column), r2, order_column)

\* outer_join[outer_join['_merge'] == side]
MergeSide(outer, side) ==
    SelectRows(outer, {i \in 1..len(outer) : Cell(outer, i, "_merge") = side})

\* Lines 248-250 and 253-255: the rows of one side only, under the column
\* names of that side's dataframe.
UnqRows(outer, side, cols, names) ==
    [Project(MergeSide(outer, side), cols) EXCEPT !.columns = names]

\* What _dataframe_merge leaves when it raises: the heap as it stands and
\* the three row sets as line 96 set them.
MergeRaised(h, e) ==
    [heap |-> h, e |-> e, df1_unq |-> None, df2_unq |-> None, intersect |-> None]

\* Lines 244-265: the three row sets cut from the joined frame.
SplitJoin(h, r1, r2, outer, df1_cols, df2_cols) ==
    IF ~(df1_cols.ok /\ df2_cols.ok) THEN MergeRaised(h, "ValueError")
    ELSE [heap |-> h, e |-> "none",
          df1_unq |-> UnqRows(outer, LeftOnly, df1_cols.cols, h[r1].columns),
          df2_unq |-> UnqRows(outer, RightOnly, df2_cols.cols, h[r2].columns),
          intersect |-> MergeSide(outer, Both)]

MergeColumns(h, r1, r2, outer) ==
    SplitJoin(h, r1, r2, outer, get_merged_columns(h[r1], outer, "_df1"),
              get_merged_columns(h[r2], outer, "_df2"))

\* Lines 233-265 of the duplicate branch, st being the heap after the
\* clean-up of the caller's dataframes.
AfterDetach(st, r1, r2, outer) ==
    IF st.e # "none" THEN MergeRaised(st.heap, st.e)
    ELSE MergeColumns(st.heap, r1, r2, outer)

\* Lines 220-242 of the duplicate branch, st being the heap with the
\* temporary columns attached.
JoinRanked(st, r1, r2, useIndex, index_column, order_column, on) ==
    IF st.e # "none" THEN MergeRaised(st.heap, st.e)
    ELSE AfterDetach(
             DetachTemp(st, r1, r2, useIndex, index_column, order_column),
             r1, r2,
             CleanJoin(merge(st.heap[r1], st.heap[r2], on, FALSE),
                       useIndex, index_column, order_column))

\* Lines 212-218: the order column, named once the index column is attached.
RankAndJoin(st, r1, r2, useIndex, index_column, order_column, temp_join_columns) ==
    JoinRanked(
        AssignOrder(AssignOrder(st, r1, order_column, temp_join_columns),
                    r2, order_column, temp_join_columns),
        r1, r2, useIndex, index_column, order_column,
        Append(temp_join_columns, order_column))

\* Lines 204-210: with on_index the index is brought into a column.
IndexAndJoin(st, r1, r2, useIndex, index_column, keys) ==
    RankAndJoin(st, r1, r2, useIndex, index_column,
                temp_column_name(st.heap[r1], st.heap[r2]),
                IF useIndex THEN <<index_column>> ELSE keys)

MergeDupes(h, r1, r2, useIndex, index_column, keys) ==
    IndexAndJoin(
        IF useIndex
        THEN AssignIndex(AssignIndex([heap |-> h, e |-> "none"], r1, index_column),
                         r2, index_column)
        ELSE [heap |-> h, e |-> "none"],
        r1, r2, useIndex, index_column, keys)

\* _dataframe_merge as a whole: the heap it leaves, the exception it raises
\* and the three row sets.
dataframe_merge(h, r1, r2, dupes, useIndex, keys) ==
    IF dupes THEN MergeDupes(h, r1, r2, useIndex, temp_column_name(h[r1], h[r2]), keys)
    ELSE IF useIndex THEN MergeColumns(h, r1, r2, merge(h[r1], h[r2], <<>>, TRUE))
    ELSE MergeColumns(h, r1, r2, merge(h[r1], h[r2], keys, FALSE))

\* Lines 92-97 and the call of _dataframe_merge from _compare (line 172).
MergeInto(m) ==
    /\ heap' = m.heap
    /\ df1_unq_rows' = m.df1_unq
    /\ df2_unq_rows' = m.df2_unq
    /\ intersect_rows' = m.intersect
    /\ pc' = IF m.e = "none" THEN "merged" ELSE "error"
    /\ err' = IF m.e = "none" THEN err ELSE Raise(m.e, "merge")

DataframeMerge ==
    /\ pc = "df2_set"
    /\ MergeInto(dataframe_merge(heap, arg.df1, arg.df2, any_dupes, on_index,
                                 join_columns))
    /\ column_stats' = <<>>
    /\ UNCHANGED <<arg, heap0, on_index, join_columns, any_dupes, ret>>

\* ------------------------------------------------------ _intersect_compare
df1_unq_columns == Range(df1.columns) \ Range(df2.columns)
df2_unq_columns == Range(df2.columns) \ Range(df1.columns)
intersect_columns == Range(df1.columns) \cap Range(df2.columns)

\* The rule utils.columns_equal applies to one pair of values: two missing
\* values are equal, one missing value is unequal, two numbers are equal
\* within abs_tol + rel_tol * abs(second value), anything else is equal
\* when it is the same value.  rel_tol counts RelDen-ths.
ValuesEqual(x, y, rel_tol, abs_tol) ==
    IF isnull(x) /\ isnull(y) THEN TRUE
    ELSE IF isnull(x) \/ isnull(y) THEN FALSE
    ELSE IF x.t = "num" /\ y.t = "num"
    THEN Abs(x.v - y.v) * RelDen <= abs_tol * RelDen + rel_tol * Abs(y.v)
    ELSE x = y

\* utils.columns_equal(col_1, col_2, rel_tol, abs_tol): a boolean per row.
columns_equal(col_1, col_2, rel_tol, abs_tol) ==
    [i \in 1..Len(col_1) |-> Bool(ValuesEqual(col_1[i], col_2[i], rel_tol, abs_tol))]

\* Series.sum() of a boolean column.
SumTrue(col) == Cardinality({i \in 1..Len(col) : col[i] = Bool(TRUE)})

\* columns_equal called with the df2 column first.
MatchColumn_Swapped(rows, column, rel_tol, abs_tol) ==
    columns_equal(Col(rows, column \o "_df2"), Col(rows, column \o "_df1"),
                  rel_tol, abs_tol)

\* Lines 286-290: the match column of one shared column.
MatchColumn(rows, column, rel_tol, abs_tol) ==
    columns_equal(Col(rows, column \o "_df1"), Col(rows, column \o "_df2"),
                  rel_tol, abs_tol)

\* Series.max(): the largest value, NaN when there is none.
MaxOrNaN(S) ==
    IF S = {} THEN NULL ELSE Num(CHOOSE m \in S : \A n \in S : n <= m)

\* The subtraction of line 294 raises when a value of either column is a
\* string.
SubtractRaises(rows, column) ==
    \E i \in 1..len(rows) :
        \/ Cell(rows, i, column \o "_df1").t = "str"
        \/ Cell(rows, i, column \o "_df2").t = "str"

\* abs(df1 - df2) of the rows where neither side is missing; the difference
\* is NaN on the other rows, and max() skips NaN.
AbsDiffs(rows, column) ==
    {Abs(Cell(rows, i, column \o "_df1").v - Cell(rows, i, column \o "_df2").v) :
        i \in {j \in 1..len(rows) :
                  /\ ~isnull(Cell(rows, j, column \o "_df1"))
                  /\ ~isnull(Cell(rows, j, column \o "_df2"))}}

\* Lines 293-298: the largest absolute difference over the intersect rows,
\* 0 when the subtraction raises.
MaxDiff(rows, column) ==
    IF SubtractRaises(rows, column) THEN Num(0)
    ELSE MaxOrNaN(AbsDiffs(rows, column))

\* The dtype of a column: object when it holds strings or the dataframe was
\* built from no rows, float64 when a number is missing, int64 otherwise.
dtype(f, column) ==
    IF len(f) = 0 \/ \E i \in 1..len(f) : Cell(f, i, column).t = "str" THEN "object"
    ELSE IF \E i \in 1..len(f) : isnull(Cell(f, i, column)) THEN "float64"
    ELSE "int64"

\* The count of the rows where either side is missing.
NullDiff_EitherNull(rows, column) ==
    Cardinality({i \in 1..len(rows) :
        isnull(Cell(rows, i, column \o "_df1")) \/ isnull(Cell(rows, i, column \o "_df2"))})

\* Lines 300-302: rows where exactly one side is missing.
NullDiff(rows, column) ==
    Cardinality({i \in 1..len(rows) :
        isnull(Cell(rows, i, column \o "_df1")) # isnull(Cell(rows, i, column \o "_df2"))})

\* One pass of the loop of lines 276-323: the intersect rows with the match
\* column of `column` attached, and the entry appended to column_stats.
CompareColumn(st, column, keys, rel_tol, abs_tol) ==
    LET row_cnt == len(st.rows)
        isKey == column \in Range(keys)
        col_match == IF isKey THEN "" ELSE column \o "_match"
        rows2 == IF isKey THEN st.rows
                 ELSE SetColumn(st.rows, col_match,
                                MatchColumn(st.rows, column, rel_tol, abs_tol))
        match_cnt == IF isKey THEN row_cnt ELSE SumTrue(Col(rows2, col_match))
        max_diff == IF isKey THEN Num(0) ELSE MaxDiff(st.rows, column)
        null_diff == IF isKey THEN 0 ELSE NullDiff(st.rows, column)
    IN [rows |-> rows2,
        stats |-> Append(st.stats,
            [column |-> column,
             match_column |-> col_match,
             match_cnt |-> match_cnt,
             unequal_cnt |-> row_cnt - match_cnt,
             dtype1 |-> dtype(df1, column),
             dtype2 |-> dtype(df2, column),
             all_match |-> (dtype(df1, column) = dtype(df2, column)
                            /\ row_cnt = match_cnt),
             max_diff |-> max_diff,
             null_diff |-> null_diff])]

\* _intersect_compare over the shared columns in the order `order`.
intersect_compare(rows, stats, order, keys, rel_tol, abs_tol) ==
    LET RECURSIVE go(_, _)
        go(st, k) == IF k > Len(order) THEN st
                     ELSE go(CompareColumn(st, order[k], keys, rel_tol, abs_tol), k + 1)
    IN go([rows |-> rows, stats |-> stats], 1)

Compared(c) ==
    /\ intersect_rows' = c.rows
    /\ column_stats' = c.stats

\* The call of _intersect_compare from _compare (line 173).  The loop runs
\* over a Python set, whose order is not fixed.
IntersectCompare ==
    /\ pc = "merged"
    /\ \E order \in Perms(intersect_columns) :
          Compared(intersect_compare(intersect_rows, column_stats, order,
                                     join_columns, arg.rel_tol, arg.abs_tol))
    /\ pc' = "done"
    /\ UNCHANGED <<arg, heap, heap0, on_index, join_columns, any_dupes,
                   df1_unq_rows, df2_unq_rows, err, ret>>

\* ------------------------------------------------------------- predicates
all_columns_match == df1_unq_columns = df2_unq_columns /\ df2_unq_columns = {}

all_rows_overlap == len(df1_unq_rows) = len(df2_unq_rows) /\ len(df2_unq_rows) = 0

\* count_matching_rows with the row test negated: it counts the rows that
\* have a compared column marked unequal.
CountMatching_Negated(rows, shared, keys) ==
    LET match_columns == {c \o "_match" : c \in shared \ Range(keys)}
    IN Cardinality({i \in 1..len(rows) :
           ~(\A m \in match_columns : Cell(rows, i, m) = Bool(TRUE))})

\* Lines 349-353 on a frame of intersect rows.
CountMatching(rows, shared, keys) ==
    LET match_columns == {c \o "_match" : c \in shared \ Range(keys)}
    IN Cardinality({i \in 1..len(rows) :
           \A m \in match_columns : Cell(rows, i, m) = Bool(TRUE)})

count_matching_rows == CountMatching(intersect_rows, intersect_columns, join_columns)

intersect_rows_match == count_matching_rows = len(intersect_rows)

\* matches() without the all_rows_overlap branch of lines 370-371.
matches_NoRowOverlap(ignore_extra_columns) ==
    IF ~ignore_extra_columns /\ ~all_columns_match THEN FALSE
    ELSE IF ~intersect_rows_match THEN FALSE
    ELSE TRUE

matches(ignore_extra_columns) ==
    IF ~ignore_extra_columns /\ ~all_columns_match THEN FALSE
    ELSE IF ~all_rows_overlap THEN FALSE
    ELSE IF ~intersect_rows_match THEN FALSE
    ELSE TRUE

subset ==
    IF ~(df2_unq_columns = {}) THEN FALSE
    ELSE IF ~(len(df2_unq_rows) = 0) THEN FALSE
    ELSE IF ~intersect_rows_match THEN FALSE
    ELSE TRUE

\* sample_mismatch without the min() of line 418.
SampleSize_Unclamped(rows, column, sample_count) == sample_count

\* Lines 415-418: the number of rows sample_mismatch asks sample() for.
SampleSize(rows, column, sample_count) ==
    Min(sample_count, len(rows) - SumTrue(Col(rows, column \o "_match")))

\* The positions of the rows of intersect_rows[~col_match].
Mismatched(rows, column) ==
    {i \in 1..len(rows) : Cell(rows, i, column \o "_match") # Bool(TRUE)}

\* ------------------------------------------------------- calls of methods
\* The methods read the finished object and leave it as it is, so the state
\* after any sequence of calls is the state after the last of them: a
\* behaviour records one call, made on the object as constructed.
Callable == pc = "done" /\ ret = NoRet

Returned(call, column, n, flag, value) ==
    [call |-> call, column |-> column, n |-> n, flag |-> flag, value |-> value,
     raised |-> FALSE, rows |-> {}]

Matches ==
    /\ Callable
    /\ \E ignore \in BOOLEAN :
          ret' = Returned("matches", "", 0, ignore, matches(ignore))
    /\ UNCHANGED <<pc, arg, heap, heap0, on_index, join_columns, any_dupes,
                   df1_unq_rows, df2_unq_rows, intersect_rows, column_stats, err>>

Subset ==
    /\ Callable
    /\ ret' = Returned("subset", "", 0, FALSE, subset)
    /\ UNCHANGED <<pc, arg, heap, heap0, on_index, join_columns, any_dupes,
                   df1_unq_rows, df2_unq_rows, intersect_rows, column_stats, err>>

\* sample_mismatch(column, sample_count) for a compared column:
\* DataFrame.sample(n) draws n distinct rows and raises ValueError when
\* there are fewer than n.
SampleMismatch ==
    /\ Callable
    /\ \E column \in intersect_columns \ Range(join_columns),
          sample_count \in 0..MaxSample :
          LET n == SampleSize(intersect_rows, column, sample_count)
              pool == Mismatched(intersect_rows, column)
          IN IF n > Cardinality(pool)
             THEN ret' = [Returned("sample_mismatch", column, sample_count,
                                   FALSE, FALSE) EXCEPT !.raised = TRUE]
             ELSE \E sample \in {s \in SUBSET pool : Cardinality(s) = n} :
                     ret' = [Returned("sample_mismatch", column, sample_count,
                                      FALSE, FALSE) EXCEPT !.rows = sample]
    /\ UNCHANGED <<pc, arg, heap, heap0, on_index, join_columns, any_dupes,
                   df1_unq_rows, df2_unq_rows, intersect_rows, column_stats, err>>

Next ==
    \/ Accept
    \/ SetDf1
    \/ SetDf2
    \/ DataframeMerge
    \/ IntersectCompare
    \/ Matches
    \/ Subset
    \/ SampleMismatch

\* ----------------------------------------------------------------- inputs
\* The values a column of the input holds, by its (lower-cased) name: id is
\* a key without missing values, a is numeric and may miss values, b holds
\* strings.
Dom(col) ==
    CASE lower(col) = "id" -> {Num(1), Num(2)}
      [] lower(col) = "b" -> {Str(1), Str(2)}
      [] OTHER -> {Num(1), Num(2), NULL}

RowsOf(cols) ==
    {r \in [1..Len(cols) -> UNION {Dom(cols[k]) : k \in 1..Len(cols)}] :
        \A k \in 1..Len(cols) : r[k] \in Dom(cols[k])}

\* The dataframes with these columns, at most n rows and the default index.
Frames(cols, n) ==
    {Frame(cols, RangeIndex(Len(d)), d) : d \in SeqsUpTo(RowsOf(cols), n)}

\* df.set_index(c): column c becomes the index.
set_index(df, c) == [DropColumn(df, c) EXCEPT !.index = Col(df, c)]

\* What the caller passes: with on_index, a dataframe indexed by its id.
Passed(f, oi) ==
    IF oi /\ f.kind = "DataFrame" /\ HasColumn(f, "id") THEN set_index(f, "id") ELSE f

\* The values of join_columns: absent, one name, a list of names.
JoinArgs ==
    {[kind |-> "None", cols |-> <<>>],
     [kind |-> "str", cols |-> <<"id">>],
     [kind |-> "list", cols |-> <<"ID">>]}

\* The state at the call Compare(df1, df2, join_columns, on_index, abs_tol,
\* rel_tol): o1 and o2 are the caller's objects, df2 is cell r2 of the heap.
Start(o1, o2, r2, jc, oi, at, rt) ==
    /\ pc = "start"
    /\ arg = [df1 |-> 1, df2 |-> r2, join_columns |-> jc, on_index |-> oi,
              abs_tol |-> at, rel_tol |-> rt]
    /\ heap = <<o1, o2>>
    /\ heap0 = <<o1, o2>>
    /\ on_index = FALSE
    /\ join_columns = <<>>
    /\ any_dupes = FALSE
    /\ df1_unq_rows = Unset
    /\ df2_unq_rows = Unset
    /\ intersect_rows = Unset
    /\ column_stats = <<>>
    /\ err = NoErr
    /\ ret = NoRet

\* Dataframes of a few rows that exercise the validation: upper-case names,
\* no join column, names that collide once lower-cased, an extra column.
FewRows == 1
ShapeFrames ==
    Frames(<<"ID", "A">>, FewRows) \cup Frames(<<"a">>, FewRows)
        \cup Frames(<<"id", "ID">>, FewRows) \cup Frames(<<"id", "a", "b">>, FewRows)

InputFrames == Frames(<<"id", "a">>, MaxRows) \cup ShapeFrames \cup {NotAFrame}

\* Any two inputs, or the same object twice, under every choice of key and
\* the default tolerances.
Init ==
    \E f1 \in InputFrames, f2 \in InputFrames, r2 \in 1..2,
       jc \in JoinArgs, oi \in BOOLEAN :
        /\ r2 = 1 => f2 = f1
        /\ Start(Passed(f1, oi), Passed(f2, oi), r2, jc, oi, 0, 0)

Spec == Init /\ [][Next]_vars

\* Two dataframes that hold the same rows: df2 lists the rows of df1 in
\* another order and its columns in another order.
Permuted(f, colOrder, rowOrder) ==
    Frame(colOrder, f.index,
          [i \in 1..len(f) |->
              [k \in 1..Len(colOrder) |-> Cell(f, rowOrder[i], colOrder[k])]])

InitDup ==
    \E f1 \in Frames(<<"id", "a", "b">>, MaxRows), oi \in BOOLEAN :
        \E colOrder \in Perms(Range(f1.columns)), rowOrder \in Perms(1..len(f1)) :
            Start(Passed(f1, oi), Passed(Permuted(f1, colOrder, rowOrder), oi), 2,
                  [kind |-> IF oi THEN "None" ELSE "str", cols |-> <<"id">>],
                  oi, 0, 0)

SpecDup == InitDup /\ [][Next]_vars

\* The tolerances: abs_tol in 0..MaxTol, rel_tol in 0..MaxTol RelDen-ths.
MaxTol == 1
InitTol ==
    \E f1 \in Frames(<<"id", "a">>, MaxRows) \cup Frames(<<"id", "a", "b">>, FewRows),
       f2 \in Frames(<<"id", "a">>, MaxRows) \cup Frames(<<"id", "a", "b">>, FewRows),
       at \in 0..MaxTol, rt \in 0..MaxTol :
        Start(f1, f2, 2, [kind |-> "str", cols |-> <<"id">>], FALSE, at, rt)

SpecTol == InitTol /\ [][Next]_vars

\* ----------------------------------------------------------------- claims
\* The rows of a frame as values: the data of each row, with its index
\* label in front when the comparison joins on the index.
RowItems(f, withIndex) ==
    [i \in 1..len(f) |-> IF withIndex THEN <<f.index[i]>> \o f.data[i] ELSE f.data[i]]

\* The side of the matched rows that came from dataframe d, under the
\* column names of d.
MatchedSide(d, suffix) ==
    [Project(intersect_rows, get_merged_columns(d, intersect_rows, suffix).cols)
        EXCEPT !.columns = d.columns]

\* Every row of d is in exactly one of unq and the matched rows, as often
\* as d holds it.
SplitsInto(d, unq, suffix) ==
    LET all == RowItems(d, on_index)
        u == RowItems(unq, on_index)
        m == RowItems(MatchedSide(d, suffix), on_index)
    IN /\ len(d) = len(unq) + len(intersect_rows)
       /\ \A x \in Range(all) \cup Range(u) \cup Range(m) :
              Count(all, x) = Count(u, x) + Count(m, x)

C1_WitnessColumns ==
    /\ pc = "done"
    /\ any_dupes
    /\ ~on_index
    /\ len(df2) = 2
    /\ len(intersect_rows) = 1
    /\ len(df2_unq_rows) = 1

\* The rows of f by lower-cased column name (and index label).
RowMap(f, i, withIndex) ==
    [c \in Range(LowerAll(f.columns)) \cup {"(index)"} |->
        IF c = "(index)" THEN (IF withIndex THEN f.index[i] ELSE NULL)
        ELSE f.data[i][IndexOf(LowerAll(f.columns), c)]]
RowMaps(f, withIndex) == [i \in 1..len(f) |-> RowMap(f, i, withIndex)]

\* f and g hold the same multiset of rows over the same columns.
SameRows(f, g, withIndex) ==
    /\ Range(LowerAll(f.columns)) = Range(LowerAll(g.columns))
    /\ len(f) = len(g)
    /\ \A x \in Range(RowMaps(f, withIndex)) :
           Count(RowMaps(f, withIndex), x) = Count(RowMaps(g, withIndex), x)

\* C2: when duplicate keys exist and df1 and df2 hold the same multiset of
\* rows, whatever the order of their rows and of their columns, no row is
\* left over on either side and every matched pair is equal on all shared
\* columns.
C2_IdenticalDuplicatesPair ==
    (/\ pc = "done"
     /\ any_dupes
     /\ SameRows(heap0[arg.df1], heap0[arg.df2], arg.on_index))
        => /\ len(df1_unq_rows) = 0
           /\ len(df2_unq_rows) = 0
           /\ intersect_rows_match

\* C2 restricted to dataframes that list their columns in the same order
\* and are joined on columns.
C2_SameColumnOrder ==
    (/\ pc = "done"
     /\ any_dupes
     /\ ~on_index
     /\ heap0[arg.df1].columns = heap0[arg.df2].columns
     /\ SameRows(heap0[arg.df1], heap0[arg.df2], arg.on_index))
        => /\ len(df1_unq_rows) = 0
           /\ len(df2_unq_rows) = 0
           /\ intersect_rows_match

\* The arguments pass the validation of __init__ and _validate_dataframe.
ValidArgs ==
    /\ arg.on_index # (arg.join_columns.kind # "None")
    /\ \A r \in {arg.df1, arg.df2} :
           ValidateError(heap0[r],
               IF arg.on_index THEN <<>> ELSE LowerAll(arg.join_columns.cols)) = "none"

\* C3: comparing a valid dataset with itself (df1 and df2 the same object)
\* completes without error, matches, overlaps in all rows and has no
\* unequal value and no null difference in any column.
C3_SelfComparisonMatches ==
    (arg.df2 = arg.df1 /\ ValidArgs /\ pc \in {"done", "error"})
        => /\ pc = "done"
           /\ matches(FALSE)
           /\ all_rows_overlap
           /\ \A k \in 1..Len(column_stats) :
                  column_stats[k].unequal_cnt = 0 /\ column_stats[k].null_diff = 0

\* C3 without duplicate keys.
C3_SelfComparisonUniqueKeys ==
    (arg.df2 = arg.df1 /\ ValidArgs /\ pc \in {"done", "error"} /\ ~any_dupes)
        => /\ pc = "done"
           /\ matches(FALSE)
           /\ all_rows_overlap
           /\ \A k \in 1..Len(column_stats) :
                  column_stats[k].unequal_cnt = 0 /\ column_stats[k].null_diff = 0

\* Every matched row has all its compared columns marked equal.
AllMatchedRowsEqual ==
    \A i \in 1..len(intersect_rows) :
        \A c \in intersect_columns \ Range(join_columns) :
            Cell(intersect_rows, i, c \o "_match") = Bool(TRUE)

\* C4: matches(ignore_extra_columns) is true exactly when
\* (ignore_extra_columns or neither dataframe has a column of its own) and
\* neither has a row of its own and every matched row is equal on every
\* compared column.
C4_MatchesIsConjunction ==
    ret.call = "matches" =>
        ret.value =
            (/\ ret.flag \/ (df1_unq_columns = {} /\ df2_unq_columns = {})
             /\ len(df1_unq_rows) = 0 /\ len(df2_unq_rows) = 0
             /\ AllMatchedRowsEqual)

\* C4 witness: a dataframe with a column of its own matches only when the
\* extra columns are ignored.
C4_Witness ==
    /\ ret.call = "matches"
    /\ ret.flag
    /\ ret.value
    /\ df1_unq_columns # {}
    /\ len(intersect_rows) > 0

\* Every row of d2 has a row of its own in d1 that agrees with it on all
\* columns of d2 (and on the index label), all of them columns of d1.
Contained(d2, d1, withIndex) ==
    /\ Range(LowerAll(d2.columns)) \subseteq Range(LowerAll(d1.columns))
    /\ \E g \in [1..len(d2) -> 1..len(d1)] :
          /\ \A i, j \in 1..len(d2) : i # j => g[i] # g[j]
          /\ \A i \in 1..len(d2) :
                /\ withIndex => d2.index[i] = d1.index[g[i]]
                /\ \A c \in Range(LowerAll(d2.columns)) :
                       RowMap(d2, i, withIndex)[c] = RowMap(d1, g[i], withIndex)[c]

\* Some matched row differs on a compared column.
SomeMatchedRowDiffers ==
    \E i \in 1..len(intersect_rows) :
        \E c \in intersect_columns \ Range(join_columns) :
            ~ValuesEqual(Cell(intersect_rows, i, c \o "_df1"),
                         Cell(intersect_rows, i, c \o "_df2"),
                         arg.rel_tol, arg.abs_tol)

\* C5: subset() is true whenever df2 is contained in df1 row-wise and
\* column-wise with identical values, and false whenever df2 has a column
\* df1 lacks, a row of its own, or a matched row that differs.
C5_SubsetOfContained ==
    ret.call = "subset" =>
        /\ Contained(heap0[arg.df2], heap0[arg.df1], arg.on_index) => ret.value
        /\ (\/ df2_unq_columns # {}
            \/ len(df2_unq_rows) > 0
            \/ SomeMatchedRowDiffers) => ~ret.value

\* C5, the half that holds: the three ways subset() is false.
C5_SubsetFalse ==
    ret.call = "subset" =>
        ((\/ df2_unq_columns # {}
          \/ len(df2_unq_rows) > 0
          \/ SomeMatchedRowDiffers) => ~ret.value)

\* C5, the first half without duplicate keys.
C5_SubsetUniqueKeys ==
    (ret.call = "subset" /\ ~any_dupes) =>
        (Contained(heap0[arg.df2], heap0[arg.df1], arg.on_index) => ret.value)

\* The rule of the match flag, case by case, for a df1 value x and a df2
\* value y.
FlagRule(x, y) ==
    CASE isnull(x) /\ isnull(y) -> TRUE
      [] isnull(x) # isnull(y) -> FALSE
      [] ~isnull(x) /\ ~isnull(y) /\ x.t = "num" /\ y.t = "num" ->
             Abs(x.v - y.v) * RelDen <= arg.abs_tol * RelDen + arg.rel_tol * Abs(y.v)
      [] OTHER -> x = y

\* C6: for every matched row and compared column the match flag is: both
\* missing, equal; one missing, unequal; both numbers, equal iff
\* abs(df1 - df2) <= abs_tol + rel_tol * abs(df2); otherwise equal iff the
\* values are the same.
C6_MatchFlagRule ==
    pc = "done" =>
        \A i \in 1..len(intersect_rows) :
            \A c \in intersect_columns \ Range(join_columns) :
                Cell(intersect_rows, i, c \o "_match")
                    = Bool(FlagRule(Cell(MatchedSide(df1, "_df1"), i, c),
                                    Cell(MatchedSide(df2, "_df2"), i, c)))

\* C6 witness: 1 in df1 against 2 in df2 is within rel_tol = 1/RelDen of
\* the df2 value (and would not be within it of the df1 value).
C6_Witness ==
    /\ pc = "done"
    /\ arg.abs_tol = 0
    /\ arg.rel_tol = 1
    /\ \E i \in 1..len(intersect_rows) :
          /\ Cell(intersect_rows, i, "a_df1") = Num(1)
          /\ Cell(intersect_rows, i, "a_df2") = Num(2)
          /\ Cell(intersect_rows, i, "a_match") = Bool(TRUE)
          /\ Abs(1 - 2) * RelDen > arg.rel_tol * 1

\* The constructor run again on the caller's dataframes as they were, up to
\* the end of _dataframe_merge.
RerunMerge ==
    LET keys == IF arg.on_index THEN <<>> ELSE LowerAll(arg.join_columns.cols)
        h == [r \in 1..2 |-> IF r \in {arg.df1, arg.df2}
                             THEN ValidateRename(heap0[r]) ELSE heap0[r]]
    IN dataframe_merge(h, arg.df1, arg.df2,
                       \E r \in {arg.df1, arg.df2} :
                           ValidateDupes(h[r], arg.on_index, keys),
                       arg.on_index, keys)

\* count_matching_rows() of the run with tolerances rel_tol and abs_tol.
RerunCount(m, rel_tol, abs_tol) ==
    CountMatching(
        intersect_compare(m.intersect, <<>>,
            CHOOSE o \in Perms(intersect_columns) : TRUE,
            join_columns, rel_tol, abs_tol).rows,
        intersect_columns, join_columns)

\* The run m of the same comparison with tolerances that are not smaller
\* counts at least as many matching rows, over the same three row sets.
NoFewerMatches(m) ==
    /\ \A at2 \in arg.abs_tol..MaxTol, rt2 \in arg.rel_tol..MaxTol :
           RerunCount(m, rt2, at2) >= count_matching_rows
    /\ m.df1_unq = df1_unq_rows
    /\ m.df2_unq = df2_unq_rows
    /\ m.intersect = Project(intersect_rows, m.intersect.columns)

\* C7: for fixed df1, df2 and join key, raising abs_tol or rel_tol never
\* lowers count_matching_rows(), and the rows are partitioned alike.
C7_ToleranceMonotone ==
    (pc = "done" /\ ret = NoRet) => NoFewerMatches(RerunMerge)

\* C7 witness: no row matches at the tolerances of the run, both match at
\* the largest.
C7_Witness ==
    /\ pc = "done"
    /\ len(intersect_rows) = 2
    /\ count_matching_rows = 0
    /\ RerunCount(RerunMerge, MaxTol, MaxTol) = 2

\* C8: when the constructor has ended, with or without an error, the
\* caller's dataframes are as they were before the call.
C8_InputsUnchanged ==
    pc \in {"done", "error"} => heap = heap0

\* C8 for a construction that succeeds, but for the case of the names: the
\* dataframes hold the rows they held, under lower-cased column names.
C8_OnlyNamesLowered ==
    pc = "done" =>
        \A r \in {arg.df1, arg.df2} : heap[r] = ValidateRename(heap0[r])

\* The five invalid inputs: both key modes, none, an argument that is not a
\* dataframe, a dataframe without a join column, names that collide once
\* lower-cased.
BothKeyModes == arg.on_index /\ arg.join_columns.kind # "None"
NoKeyMode == ~arg.on_index /\ arg.join_columns.kind = "None"
NotDataFrame == \E r \in {arg.df1, arg.df2} : heap0[r].kind # "DataFrame"
MissingJoinColumn ==
    /\ ~arg.on_index
    /\ \E r \in {arg.df1, arg.df2} :
          ~(Range(LowerAll(arg.join_columns.cols))
                \subseteq Range(LowerAll(heap0[r].columns)))
CollidingNames ==
    \E r \in {arg.df1, arg.df2} : ~UniqueNames(LowerAll(heap0[r].columns))
InvalidInput ==
    BothKeyModes \/ NoKeyMode \/ NotDataFrame \/ MissingJoinColumn \/ CollidingNames

NothingComputed ==
    /\ df1_unq_rows = Unset
    /\ df2_unq_rows = Unset
    /\ intersect_rows = Unset
    /\ column_stats = <<>>

\* C9: on each of the invalid inputs the constructor never gets to the
\* join: it goes on until it raises, in __init__ or in the validation of a
\* dataframe, and none of the results is ever computed.
C9_InvalidInputRaisesEarly ==
    InvalidInput =>
        /\ pc \in {"start", "accepted", "df1_set", "error"}
        /\ pc # "error" => ENABLED Next
        /\ pc = "error" => err.stage \in {"init", "validate_df1", "validate_df2"}
        /\ NothingComputed

\* C9 witness: the second dataframe has colliding names and the
\* constructor raised on it.
C9_Witness ==
    /\ pc = "error"
    /\ err = Raise("ValueError", "validate_df2")
    /\ ~UniqueNames(LowerAll(heap0[arg.df2].columns))
    /\ arg.df2 # arg.df1

\* C10: sample_mismatch(c, n) does not raise and returns exactly
\* min(n, number of matched rows that mismatch on c) rows, each a distinct
\* matched row that mismatches on c.
C10_SampleClamped ==
    ret.call = "sample_mismatch" =>
        LET bad == {i \in 1..len(intersect_rows) :
                       Cell(intersect_rows, i, ret.column \o "_match") = Bool(FALSE)}
        IN /\ ~ret.raised
           /\ ret.rows \subseteq bad
           /\ Cardinality(ret.rows) = Min(ret.n, Cardinality(bad))

\* C10 witness: more rows asked for than mismatch, and some do.
C10_Witness ==
    /\ ret.call = "sample_mismatch"
    /\ Cardinality(ret.rows) = 1
    /\ ret.n > 1
    /\ len(intersect_rows) = 2

\* The matched rows that are mismatches for column c, and the absolute
\* differences among those of them where both sides are numbers.
MismatchRows(c) ==
    {i \in 1..len(intersect_rows) :
        Cell(intersect_rows, i, c \o "_match") = Bool(FALSE)}

MismatchDiffs(c) ==
    {Abs(Cell(intersect_rows, i, c \o "_df1").v - Cell(intersect_rows, i, c \o "_df2").v) :
        i \in {j \in MismatchRows(c) :
                  /\ Cell(intersect_rows, j, c \o "_df1").t = "num"
                  /\ Cell(intersect_rows, j, c \o "_df2").t = "num"}}

\* A max_diff that reports no numeric difference: 0, or the NaN of a
\* maximum over no number.
NoDifference(v) == v = Num(0) \/ v = NULL

\* A column is non-numeric when a matched row holds a string in it.
NonNumeric(c) ==
    \E i \in 1..len(intersect_rows) :
        \/ Cell(intersect_rows, i, c \o "_df1").t = "str"
        \/ Cell(intersect_rows, i, c \o "_df2").t = "str"

MaxDiffAmongMismatches(st) ==
    IF NonNumeric(st.column) THEN st.max_diff = Num(0)
    ELSE IF MismatchDiffs(st.column) = {} THEN NoDifference(st.max_diff)
    ELSE st.max_diff = MaxOrNaN(MismatchDiffs(st.column))

\* The entries of column_stats of the shared columns that are not keys.
NonKeyStats ==
    {k \in 1..Len(column_stats) : column_stats[k].column \notin Range(join_columns)}

\* C11: for every shared non-key column the recorded max_diff is the
\* largest abs(df1 - df2) over the matched rows whose match flag is false;
\* rows equal within tolerance do not contribute, a column without a
\* mismatching row reports no difference, a non-numeric column reports 0.
C11_MaxDiffAmongMismatches ==
    pc = "done" => \A k \in NonKeyStats : MaxDiffAmongMismatches(column_stats[k])

\* C11 with both tolerances 0, where a row that matches differs by 0.
C11_ExactTolerances ==
    (pc = "done" /\ arg.abs_tol = 0 /\ arg.rel_tol = 0) =>
        \A k \in NonKeyStats : MaxDiffAmongMismatches(column_stats[k])

\* C11, what is recorded: the largest abs(df1 - df2) over all matched rows
\* where both sides are numbers, mismatches or not; 0 for a non-numeric
\* column.
C11_MaxDiffOverMatchedRows ==
    pc = "done" =>
        \A k \in NonKeyStats :
            LET c == column_stats[k].column
                all == {Abs(Cell(intersect_rows, i, c \o "_df1").v
                            - Cell(intersect_rows, i, c \o "_df2").v) :
                          i \in {j \in 1..len(intersect_rows) :
                                    /\ Cell(intersect_rows, j, c \o "_df1").t = "num"
                                    /\ Cell(intersect_rows, j, c \o "_df2").t = "num"}}
            IN column_stats[k].max_diff
                   = IF NonNumeric(c) THEN Num(0) ELSE MaxOrNaN(all)

\* A column without a mismatching row whose max_diff is a difference.
C11_DifferenceWithoutMismatch ==
    /\ pc = "done"
    /\ \E k \in NonKeyStats :
          /\ column_stats[k].unequal_cnt = 0
          /\ column_stats[k].max_diff = Num(1)

\* The columns the entries of column_stats are about, and whether each is
\* there once.
StatColumns == {column_stats[k].column : k \in 1..Len(column_stats)}

OneEntryEach(cols) ==
    /\ StatColumns = cols
    /\ Len(column_stats) = Cardinality(cols)

\* The matched rows where exactly one side of column c is missing.
OneSideNull(c) ==
    {i \in 1..len(intersect_rows) :
        isnull(Cell(intersect_rows, i, c \o "_df1"))
            # isnull(Cell(intersect_rows, i, c \o "_df2"))}

\* The counts and the flag of one entry of a column that is not a key.
EntryRule(st) ==
    /\ st.match_cnt + st.unequal_cnt = len(intersect_rows)
    /\ st.null_diff = Cardinality(OneSideNull(st.column))
    /\ st.all_match <=> (dtype(df1, st.column) = dtype(df2, st.column)
                          /\ st.unequal_cnt = 0)

\* C12: column_stats holds exactly one entry for each shared non-key column
\* and none for any other column; in each entry match_cnt + unequal_cnt is
\* the number of matched rows, null_diff is the number of matched rows
\* where exactly one side is missing, whatever the tolerances, and
\* all_match is true iff the dtypes are the same and unequal_cnt is 0.
C12_OneEntryPerNonKeyColumn ==
    pc = "done" =>
        /\ OneEntryEach(intersect_columns \ Range(join_columns))
        /\ \A k \in NonKeyStats : EntryRule(column_stats[k])

\* C12 as amended: one entry for each shared column, the key columns
\* included; a key column's entry counts every matched row as a match and
\* has no match column, no difference and no null difference; the entries
\* of the other columns are as the claim says.
C12_OneEntryPerSharedColumn ==
    pc = "done" =>
        /\ OneEntryEach(intersect_columns)
        /\ \A k \in NonKeyStats : EntryRule(column_stats[k])
        /\ \A k \in (1..Len(column_stats)) \ NonKeyStats :
              LET st == column_stats[k]
              IN /\ st.match_column = ""
                 /\ st.match_cnt = len(intersect_rows)
                 /\ st.unequal_cnt = 0
                 /\ st.max_diff = Num(0)
                 /\ st.null_diff = 0
                 /\ st.all_match <=> dtype(df1, st.column) = dtype(df2, st.column)

\* C12 witness: a key column has its entry, and under a tolerance that is
\* not 0 the entry of another column counts a row missing on one side.
C12_Witness ==
    /\ pc = "done"
    /\ arg.abs_tol > 0
    /\ NonKeyStats # 1..Len(column_stats)
    /\ \E k \in NonKeyStats :
          /\ column_stats[k].null_diff = 1
          /\ column_stats[k].match_cnt = 1
          /\ column_stats[k].unequal_cnt = 1

\* A column whose matched rows are all equal and whose dtypes differ.
C12_WitnessDtype ==
    /\ pc = "done"
    /\ \E k \in NonKeyStats :
          /\ column_stats[k].unequal_cnt = 0
          /\ column_stats[k].match_cnt > 0
          /\ column_stats[k].dtype1 # column_stats[k].dtype2
          /\ ~column_stats[k].all_match

====
